---- MODULE Spec2Model ----
(***************************************************************************)
(* Event approval and venue booking back end (Express + Mongoose).         *)
(*                                                                         *)
(* State: the three collections the routes of src/src/routes/event.js      *)
(* read and write (organizations, events with their embedded approval      *)
(* chain and modification history, venue bookings), the last HTTP          *)
(* response, and the position of every in-flight request of the            *)
(* interleaved specification.                                              *)
(*                                                                         *)
(* Specifications: Spec (every route that writes events or bookings, one   *)
(* request at a time), SpecVenue (several events competing for the         *)
(* venues), SpecConc (creation requests interleaved at their awaits),      *)
(* SpecFail (requests whose database writes may fail), SpecQuery (the      *)
(* conflict query of creation and of check-availability against every      *)
(* booking interval), SpecOrg (creation in the hierarchies the admin's     *)
(* create-child and delete requests produce), SpecEdit (the creator's      *)
(* edits of a returned event, venue moves included), SpecHierarchy (the    *)
(* organization routes: register, create-child, update, delete),           *)
(* SpecCascade (reviews while organizations of the chain are deleted),     *)
(* SpecRace (a review and a cancel interleaved at their awaits), SpecWalk  *)
(* and SpecWalkFair (the hierarchy walk of creation one iteration at a     *)
(* time) and SpecPending (the pending-approval listing).                   *)
(*                                                                         *)
(* Not modelled: free-text fields (name, description, comments), budget,   *)
(* participant counts, timestamps, passwords and tokens.  No route         *)
(* branches on them once the required-field check has passed.              *)
(***************************************************************************)
EXTENDS Integers, Sequences, FiniteSets, TLC

VARIABLES orgs, events, bookings, last, procs

vars == <<orgs, events, bookings, last, procs>>

(***************************************************************************)
(* Bounds.                                                                 *)
(***************************************************************************)
MaxEvents == 1
MaxBooked == 2
MaxTime == 1
MaxSlot == 2
MaxHistory == 1
MaxQueryTime == 3

Times == 0..MaxTime
Slots == 0..MaxSlot
None == "none"
NoTime == 0 - 1
OrgIds == {"root", "college", "dept", "club"}
NewOrgIds == {"school"}
OrgUniverse == OrgIds \cup NewOrgIds
OrgOrder == <<"root", "college", "dept", "club", "school">>
Venues == {"v1", "v2"}
VenueInputs == Venues \cup {"v9"}
Creators == {"college", "club"}
Decisions == {"approved", "rejected", "needs_modification"}
DecisionInputs == Decisions \cup {"pending"}
ProcIds == {"p1", "p2"}

(***************************************************************************)
(* Organization model and its pre-save hook.                               *)
(***************************************************************************)
Organization(parent, level) ==
    [parentOrganization |-> parent, level |-> level, isVenueManager |-> (level = 0)]

SeedOrgs ==
    [o \in OrgIds |->
        CASE o = "root"    -> Organization(None, 0)
          [] o = "college" -> Organization("root", 1)
          [] o = "dept"    -> Organization("college", 2)
          [] o = "club"    -> Organization("dept", 3)]

OrgExists(o) == o \in DOMAIN orgs

(***************************************************************************)
(* Responses: the operation, its arguments, the HTTP status and, for an    *)
(* accepted review, the approval chain of the event in the response body.  *)
(***************************************************************************)
Response(op, ev, org, decision, code, chain) ==
    [op |-> op, ev |-> ev, org |-> org, decision |-> decision, code |-> code,
     approvalChain |-> chain]

NoResponse == Response("none", 0, None, None, 0, <<>>)

(* A 400 answer of POST /api/events with the check that produced it. *)
ErrorResponse(creator, message) ==
    [op |-> "create", ev |-> 0, org |-> creator, decision |-> None, code |-> 400,
     approvalChain |-> <<>>, message |-> message]

(* The date check with a strict comparison: equal start and end pass. *)
InvalidIntervalStrict(startDate, endDate) == endDate < startDate

(* if (endDate <= startDate), in POST /api/events and in check-availability. *)
InvalidInterval(startDate, endDate) == endDate <= startDate

(***************************************************************************)
(* Venue conflict query of POST /api/events.                               *)
(***************************************************************************)
(* The status filter left out of the query: every booking counts. *)
ActiveStatusAny == {"temporary", "confirmed", "cancelled"}

ActiveStatus == {"temporary", "confirmed"}

(* The three cases with every comparison inclusive: a booking that only    *)
(* touches the queried interval at an endpoint matches.                    *)
ConflictQueryInclusive(b, venue, startDate, endDate) ==
    /\ b.venue = venue
    /\ b.status \in ActiveStatus
    /\ \/ (b.startDateTime <= startDate /\ b.endDateTime >= startDate)
       \/ (b.startDateTime <= endDate /\ b.endDateTime >= endDate)
       \/ (b.startDateTime >= startDate /\ b.endDateTime <= endDate)

ConflictQuery(b, venue, startDate, endDate) ==
    /\ b.venue = venue
    /\ b.status \in ActiveStatus
    /\ \/ (b.startDateTime <= startDate /\ b.endDateTime > startDate)
       \/ (b.startDateTime < endDate /\ b.endDateTime >= endDate)
       \/ (b.startDateTime >= startDate /\ b.endDateTime <= endDate)

(* findOne in place of find: at most the first matching booking. *)
conflictingBookingsFindOne(bks, venue, startDate, endDate) ==
    LET found == {i \in DOMAIN bks : ConflictQuery(bks[i], venue, startDate, endDate)}
    IN {i \in found : \A j \in found : i <= j}

conflictingBookings(bks, venue, startDate, endDate) ==
    {i \in DOMAIN bks : ConflictQuery(bks[i], venue, startDate, endDate)}

(* The body of the 409 answer: for every conflicting booking the name of   *)
(* its populated event (the event's id stands for the name) and the        *)
(* booking's own start and end.                                            *)
conflictingEvents(bks, found) ==
    {[eventName |-> bks[i].event, startTime |-> bks[i].startDateTime,
      endTime |-> bks[i].endDateTime] : i \in found}

ConflictResponse(creator, conflicts) ==
    [op |-> "create", ev |-> 0, org |-> creator, decision |-> None, code |-> 409,
     approvalChain |-> <<>>, conflictingEvents |-> conflicts]

(***************************************************************************)
(* Approval chain built at creation.                                       *)
(***************************************************************************)
ChainEntry(o, st) == [organization |-> o, status |-> st]

(* The chain the while loop has pushed when it ends.  When a parent is not  *)
(* found the loop does not end normally: see WalkThrows.                   *)
RECURSIVE Walk(_, _)
Walk(currentOrg, approvalChain) ==
    LET p == orgs[currentOrg].parentOrganization IN
    IF p = None THEN approvalChain
    ELSE IF ~OrgExists(p) THEN approvalChain
    ELSE LET pushed == Append(approvalChain, ChainEntry(p, "pending")) IN
         IF orgs[p].level = 1 THEN pushed ELSE Walk(p, pushed)

(* When findById(currentOrg.parentOrganization) finds nothing, currentOrg  *)
(* is null and the console.error of the not-found branch reads             *)
(* currentOrg.parentOrganization: a TypeError, thrown before the break and *)
(* caught by the handler's catch, which answers 500.                       *)
RECURSIVE WalkThrows(_)
WalkThrows(currentOrg) ==
    LET p == orgs[currentOrg].parentOrganization IN
    IF p = None THEN FALSE
    ELSE IF ~OrgExists(p) THEN TRUE
    ELSE IF orgs[p].level = 1 THEN FALSE
    ELSE WalkThrows(p)

IsLevel1(o) == OrgExists(o) /\ orgs[o].level = 1

(* findOne in place of find: only the first level-1 organization. *)
level1OrgsFindOne == SubSeq(SelectSeq(OrgOrder, IsLevel1), 1, 1)

level1Orgs == SelectSeq(OrgOrder, IsLevel1)

(* The walk skipped: every creator gets the level-1 organizations. *)
buildApprovalChainFlat(creator) ==
    [i \in 1..Len(level1Orgs) |-> ChainEntry(level1Orgs[i], "pending")]

buildApprovalChain(creator) ==
    LET walked == Walk(creator, <<>>) IN
    IF Len(walked) = 0 /\ orgs[creator].level # 1
    THEN [i \in 1..Len(level1Orgs) |-> ChainEntry(level1Orgs[i], "pending")]
    ELSE walked

(***************************************************************************)
(* Records.                                                                *)
(***************************************************************************)
NewEvent(creator, venue, s, e, chain) ==
    [createdBy |-> creator, venue |-> venue, startDateTime |-> s, endDateTime |-> e,
     status |-> "pending", approvalChain |-> chain, modificationHistory |-> <<>>]

NewBooking(venue, ev, s, e) ==
    [venue |-> venue, event |-> ev, startDateTime |-> s, endDateTime |-> e,
     status |-> "temporary"]

(* VenueBooking.findOneAndUpdate({event: id}, patch): the first match only. *)
BookingsOf(bks, ev) == {i \in DOMAIN bks : bks[i].event = ev}

FirstBooking(bks, ev) ==
    CHOOSE i \in BookingsOf(bks, ev) : \A j \in BookingsOf(bks, ev) : i <= j

SetBookingStatus(bks, ev, st) ==
    IF BookingsOf(bks, ev) = {} THEN bks
    ELSE [bks EXCEPT ![FirstBooking(bks, ev)].status = st]

(* A POST /api/events request in flight: its position, its body, the id of  *)
(* the event it saved and its HTTP status.                                  *)
Request(pc, creator, venue, s, e, ev, code) ==
    [pc |-> pc, creator |-> creator, venue |-> venue, startDateTime |-> s,
     endDateTime |-> e, ev |-> ev, code |-> code]

IdleRequest == Request("idle", None, None, NoTime, NoTime, 0, 0)

Init ==
    /\ orgs = SeedOrgs
    /\ events = <<>>
    /\ bookings = <<>>
    /\ last = NoResponse
    /\ procs = [p \in ProcIds |-> IdleRequest]

(***************************************************************************)
(* POST /api/events, the whole handler in one step.                        *)
(***************************************************************************)
CreateEvent(creator, venue, s, e) ==
    /\ UNCHANGED <<orgs, procs>>
    /\ IF venue \notin Venues
       THEN /\ last' = ErrorResponse(creator, "venue-not-found")
            /\ UNCHANGED <<events, bookings>>
       ELSE IF InvalidInterval(s, e)
       THEN /\ last' = ErrorResponse(creator, "invalid-interval")
            /\ UNCHANGED <<events, bookings>>
       ELSE IF \E i \in conflictingBookings(bookings, venue, s, e) :
                  bookings[i].event \notin DOMAIN events
       THEN /\ last' = Response("create", 0, creator, None, 500, <<>>)
            /\ UNCHANGED <<events, bookings>>
       ELSE IF conflictingBookings(bookings, venue, s, e) # {}
       THEN /\ last' = ConflictResponse(creator,
                          conflictingEvents(bookings,
                              conflictingBookings(bookings, venue, s, e)))
            /\ UNCHANGED <<events, bookings>>
       ELSE IF WalkThrows(creator)
       THEN /\ last' = Response("create", 0, creator, None, 500, <<>>)
            /\ UNCHANGED <<events, bookings>>
       ELSE LET chain == buildApprovalChain(creator)
                id == Len(events) + 1
            IN /\ events' = Append(events, NewEvent(creator, venue, s, e, chain))
               /\ bookings' = Append(bookings, NewBooking(venue, id, s, e))
               /\ last' = Response("create", id, creator, None, 201, <<>>)

(***************************************************************************)
(* PUT /api/events/:eventId/review.                                        *)
(***************************************************************************)
RECURSIVE findIndexFrom(_, _, _)
findIndexFrom(chain, o, i) ==
    IF i > Len(chain) THEN 0
    ELSE IF chain[i].organization = o THEN i
    ELSE findIndexFrom(chain, o, i + 1)

(* A findIndex whose comparison never matches (an ObjectId compared with a  *)
(* string): the reviewer is never found in the chain.                       *)
approvalIndexNeverMatches(chain, o) == 0

(* approvalChain.findIndex(...): 0 stands for JavaScript's -1. *)
approvalIndex(chain, o) == findIndexFrom(chain, o, 1)

HasAuthority(o) == orgs[o].level <= 1

(* The final approver taken to be the root instead of level 1. *)
IsFinalApproverRoot(o) == orgs[o].level = 0

IsFinalApprover(o) == orgs[o].level = 1

HistoryEntry(o) == [requestedBy |-> o]

allApproved(chain, idx) == \A i \in 1..idx : chain[i].status = "approved"

(* Entries the cascade reset of a needs_modification review applies to. *)
ResetTargets(chain, idx, o) ==
    {i \in 1..Len(chain) :
        /\ i # idx
        /\ OrgExists(chain[i].organization)
        /\ orgs[chain[i].organization].level > orgs[o].level}

ResetEntries(chain, S) ==
    [i \in 1..Len(chain) |->
        IF i \in S THEN [chain[i] EXCEPT !.status = "pending"] ELSE chain[i]]

(* The ad-hoc seat put at the head of the chain (unshift in place of push). *)
unshiftReviewer(chain, o, decision) == <<ChainEntry(o, decision)>> \o chain

(* event.approvalChain.push({...}) and the decision written at newIndex, the *)
(* last position.                                                            *)
pushReviewer(chain, o, decision) == Append(chain, ChainEntry(o, decision))

(* The override branch: the reviewer has no slot but level <= 1. *)
OverrideReview(ev, o, decision) ==
    LET event == events[ev]
        chain == pushReviewer(event.approvalChain, o, decision)
        status == IF decision \in {"rejected", "needs_modification"} THEN decision
                  ELSE IF IsFinalApprover(o) THEN "approved"
                  ELSE event.status
        history == IF decision = "needs_modification"
                   THEN Append(event.modificationHistory, HistoryEntry(o))
                   ELSE event.modificationHistory
    IN /\ events' = [events EXCEPT ![ev] =
                        [event EXCEPT !.approvalChain = chain, !.status = status,
                                      !.modificationHistory = history]]
       /\ bookings' = IF decision = "rejected"
                      THEN SetBookingStatus(bookings, ev, "cancelled")
                      ELSE IF decision = "approved" /\ IsFinalApprover(o)
                      THEN SetBookingStatus(bookings, ev, "confirmed")
                      ELSE bookings
       /\ last' = Response("review", ev, o, decision, 200, chain)

(* The branch of a reviewer that holds slot idx.  The cascade reset starts one *)
(* Organization.findById(...).then(...) per entry and does not wait for them:  *)
(* `saved` are the resets applied before event.save() reads the document,      *)
(* `sent` those applied before res.json(event) serialises it.                  *)
SlotReview(ev, o, decision, idx, saved, sent) ==
    LET event == events[ev]
        chain == [event.approvalChain EXCEPT ![idx].status = decision]
        status == IF decision \in {"rejected", "needs_modification"} THEN decision
                  ELSE IF IsFinalApprover(o) THEN "approved"
                  ELSE IF ~allApproved(chain, idx) THEN "pending"
                  ELSE event.status
        history == IF decision = "needs_modification"
                   THEN Append(event.modificationHistory, HistoryEntry(o))
                   ELSE event.modificationHistory
    IN /\ events' = [events EXCEPT ![ev] =
                        [event EXCEPT !.approvalChain = ResetEntries(chain, saved),
                                      !.status = status,
                                      !.modificationHistory = history]]
       /\ bookings' = IF decision = "rejected"
                      THEN SetBookingStatus(bookings, ev, "cancelled")
                      ELSE IF decision = "approved" /\ IsFinalApprover(o)
                      THEN SetBookingStatus(bookings, ev, "confirmed")
                      ELSE bookings
       /\ last' = Response("review", ev, o, decision, 200, ResetEntries(chain, sent))

ReviewEvent(ev, o, decision) ==
    /\ UNCHANGED <<orgs, procs>>
    /\ IF decision \notin Decisions
       THEN /\ last' = Response("review", ev, o, decision, 400, <<>>)
            /\ UNCHANGED <<events, bookings>>
       ELSE IF ev \notin DOMAIN events
       THEN /\ last' = Response("review", ev, o, decision, 404, <<>>)
            /\ UNCHANGED <<events, bookings>>
       ELSE LET idx == approvalIndex(events[ev].approvalChain, o) IN
            IF idx = 0 /\ HasAuthority(o)
            THEN /\ decision = "needs_modification"
                    => Len(events[ev].modificationHistory) < MaxHistory
                 /\ OverrideReview(ev, o, decision)
            ELSE IF idx = 0
            THEN /\ last' = Response("review", ev, o, decision, 403, <<>>)
                 /\ UNCHANGED <<events, bookings>>
            ELSE IF decision = "needs_modification"
            THEN /\ Len(events[ev].modificationHistory) < MaxHistory
                 /\ \E sent \in SUBSET ResetTargets(events[ev].approvalChain, idx, o) :
                       \E saved \in SUBSET sent :
                          SlotReview(ev, o, decision, idx, saved, sent)
            ELSE SlotReview(ev, o, decision, idx, {}, {})

(***************************************************************************)
(* PUT /api/events/:id/cancel.                                             *)
(***************************************************************************)
(* The creator check left out. *)
IsCreatorUnchecked(event, o) == TRUE

IsCreator(event, o) == event.createdBy = o

(* A cancel that marks the event and forgets its booking. *)
CancelEventKeepsBooking(ev, o) ==
    /\ UNCHANGED <<orgs, procs, bookings>>
    /\ IF ev \notin DOMAIN events
       THEN /\ last' = Response("cancel", ev, o, None, 404, <<>>)
            /\ UNCHANGED events
       ELSE IF ~IsCreator(events[ev], o)
       THEN /\ last' = Response("cancel", ev, o, None, 403, <<>>)
            /\ UNCHANGED events
       ELSE /\ events' = [events EXCEPT ![ev].status = "cancelled"]
            /\ last' = Response("cancel", ev, o, None, 200, <<>>)

CancelEvent(ev, o) ==
    /\ UNCHANGED <<orgs, procs>>
    /\ IF ev \notin DOMAIN events
       THEN /\ last' = Response("cancel", ev, o, None, 404, <<>>)
            /\ UNCHANGED <<events, bookings>>
       ELSE IF ~IsCreator(events[ev], o)
       THEN /\ last' = Response("cancel", ev, o, None, 403, <<>>)
            /\ UNCHANGED <<events, bookings>>
       ELSE /\ events' = [events EXCEPT ![ev].status = "cancelled"]
            /\ bookings' = SetBookingStatus(bookings, ev, "cancelled")
            /\ last' = Response("cancel", ev, o, None, 200, <<>>)

(***************************************************************************)
(* PUT /api/events/:id.  A field of the body that is absent (None) leaves  *)
(* the event's field as it is.                                             *)
(***************************************************************************)
Patched(old, new) == IF new = None THEN old ELSE new

PatchedTime(old, new) == IF new = NoTime THEN old ELSE new

(* An update that resets the event and leaves the booking where it was. *)
RetargetBookingSkipped(bks, ev, event) == bks

(* The update written as a new booking document instead of a change to the *)
(* existing one.                                                           *)
RetargetBookingByInsert(bks, ev, event) ==
    Append(bks, NewBooking(event.venue, ev, event.startDateTime, event.endDateTime))

RetargetBooking(bks, ev, event) ==
    IF BookingsOf(bks, ev) = {} THEN bks
    ELSE [bks EXCEPT ![FirstBooking(bks, ev)] =
             [@ EXCEPT !.startDateTime = event.startDateTime,
                       !.endDateTime = event.endDateTime,
                       !.venue = event.venue,
                       !.status = "temporary"]]

UpdateEvent(ev, o, venue, s, e, resetStatus) ==
    /\ UNCHANGED <<orgs, procs>>
    /\ IF ev \notin DOMAIN events
       THEN /\ last' = Response("update", ev, o, None, 404, <<>>)
            /\ UNCHANGED <<events, bookings>>
       ELSE IF ~IsCreator(events[ev], o)
       THEN /\ last' = Response("update", ev, o, None, 403, <<>>)
            /\ UNCHANGED <<events, bookings>>
       ELSE LET patched == [events[ev] EXCEPT
                               !.venue = Patched(@, venue),
                               !.startDateTime = PatchedTime(@, s),
                               !.endDateTime = PatchedTime(@, e)]
            IN IF resetStatus /\ patched.status = "needs_modification"
               THEN /\ events' = [events EXCEPT ![ev] =
                          [patched EXCEPT
                              !.status = "pending",
                              !.modificationHistory = Append(@, HistoryEntry(o))]]
                    /\ bookings' = RetargetBooking(bookings, ev, patched)
                    /\ last' = Response("update", ev, o, None, 200, <<>>)
               ELSE /\ events' = [events EXCEPT ![ev] = patched]
                    /\ UNCHANGED bookings
                    /\ last' = Response("update", ev, o, None, 200, <<>>)

(***************************************************************************)
(* PUT /api/venue-bookings/:id, the venue manager's status update.         *)
(***************************************************************************)
BookingStatusInputs == {"temporary", "confirmed", "cancelled", "pending"}

SetEventStatus(evs, ev, st) ==
    IF ev \in DOMAIN evs THEN [evs EXCEPT ![ev].status = st] ELSE evs

UpdateBookingStatus(b, o, status) ==
    /\ UNCHANGED <<orgs, procs>>
    /\ IF ~orgs[o].isVenueManager
       THEN /\ last' = Response("booking", b, o, status, 403, <<>>)
            /\ UNCHANGED <<events, bookings>>
       ELSE IF status \notin {"temporary", "confirmed", "cancelled"}
       THEN /\ last' = Response("booking", b, o, status, 400, <<>>)
            /\ UNCHANGED <<events, bookings>>
       ELSE IF b \notin DOMAIN bookings
       THEN /\ last' = Response("booking", b, o, status, 404, <<>>)
            /\ UNCHANGED <<events, bookings>>
       ELSE /\ bookings' = [bookings EXCEPT ![b].status = status]
            /\ events' = IF status = "cancelled"
                         THEN SetEventStatus(events, bookings[b].event, "cancelled")
                         ELSE IF status = "confirmed"
                         THEN SetEventStatus(events, bookings[b].event, "approved")
                         ELSE events
            /\ last' = Response("booking", b, o, status, 200, <<>>)

(***************************************************************************)
(* The approval machine: requests handled one at a time, every             *)
(* organization as reviewer and requester, one event.  A needs_modification *)
(* review is taken only while the event's modification history is shorter  *)
(* than MaxHistory.                                                        *)
(***************************************************************************)
EventIds == 1..MaxEvents
StartInputs == {NoTime, MaxTime}

Next ==
    \/ /\ Len(events) < MaxEvents
       /\ \E c \in Creators, v \in VenueInputs, s \in Times, e \in Times :
             CreateEvent(c, v, s, e)
    \/ \E ev \in EventIds, o \in OrgIds, d \in DecisionInputs : ReviewEvent(ev, o, d)
    \/ \E ev \in EventIds, o \in OrgIds : CancelEvent(ev, o)
    \/ \E ev \in EventIds, o \in OrgIds, s \in StartInputs, r \in BOOLEAN :
          UpdateEvent(ev, o, None, s, NoTime, r)
    \/ \E b \in EventIds, o \in OrgIds, st \in BookingStatusInputs :
          UpdateBookingStatus(b, o, st)

Spec == Init /\ [][Next]_vars

(***************************************************************************)
(* Venue allocation: several events of one creator on the venues, approved *)
(* or sent back by the creator's parent, cancelled and edited with whole   *)
(* intervals by the creator.                                               *)
(***************************************************************************)
BookedIds == 1..MaxBooked
Booker == "dept"
BookerReviewer == "college"
BookerDecisions == {"approved", "needs_modification"}
Intervals == {<<s, e>> \in Slots \X Slots : s < e}
IntervalInputs == Intervals \cup {<<NoTime, NoTime>>}
MoveInputs == {None, "v2"}

NextVenue ==
    \/ /\ Len(events) < MaxBooked
       /\ \E v \in Venues, i \in Intervals : CreateEvent(Booker, v, i[1], i[2])
    \/ \E ev \in BookedIds, d \in BookerDecisions : ReviewEvent(ev, BookerReviewer, d)
    \/ \E ev \in BookedIds : CancelEvent(ev, Booker)
    \/ \E ev \in BookedIds, i \in IntervalInputs, r \in BOOLEAN :
          UpdateEvent(ev, Booker, None, i[1], i[2], r)

SpecVenue == Init /\ [][NextVenue]_vars

(***************************************************************************)
(* Editing: the creator's events are sent back by its parent and edited,   *)
(* with and without the reset flag, onto other intervals and the other     *)
(* venue.                                                                  *)
(***************************************************************************)
NextEdit ==
    \/ /\ Len(events) < MaxBooked
       /\ \E v \in Venues, i \in Intervals : CreateEvent(Booker, v, i[1], i[2])
    \/ \E ev \in BookedIds : ReviewEvent(ev, BookerReviewer, "needs_modification")
    \/ \E ev \in BookedIds, v \in MoveInputs, i \in IntervalInputs, r \in BOOLEAN :
          UpdateEvent(ev, Booker, v, i[1], i[2], r)

SpecEdit == Init /\ [][NextEdit]_vars

(***************************************************************************)
(* POST /api/events with its awaits as separate steps: the conflict query, *)
(* event.save() and venueBooking.save().  Requests interleave at the       *)
(* awaits.                                                                 *)
(***************************************************************************)
Receive(p, creator, venue, s, e) ==
    /\ procs[p].pc = "idle"
    /\ procs' = [procs EXCEPT ![p] = Request("check", creator, venue, s, e, 0, 0)]
    /\ UNCHANGED <<orgs, events, bookings, last>>

CheckAvailability(p) ==
    LET r == procs[p] IN
    /\ r.pc = "check"
    /\ procs' = [procs EXCEPT ![p] =
          IF conflictingBookings(bookings, r.venue, r.startDateTime, r.endDateTime) # {}
          THEN [r EXCEPT !.pc = "done", !.code = 409]
          ELSE [r EXCEPT !.pc = "saveEvent"]]
    /\ UNCHANGED <<orgs, events, bookings, last>>

SaveEvent(p) ==
    LET r == procs[p] IN
    /\ r.pc = "saveEvent"
    /\ IF WalkThrows(r.creator)
       THEN /\ procs' = [procs EXCEPT ![p] = [r EXCEPT !.pc = "done", !.code = 500]]
            /\ UNCHANGED events
       ELSE /\ events' = Append(events, NewEvent(r.creator, r.venue, r.startDateTime,
                                                 r.endDateTime,
                                                 buildApprovalChain(r.creator)))
            /\ procs' = [procs EXCEPT ![p] = [r EXCEPT !.pc = "saveBooking",
                                                       !.ev = Len(events) + 1]]
    /\ UNCHANGED <<orgs, bookings, last>>

SaveBooking(p) ==
    LET r == procs[p] IN
    /\ r.pc = "saveBooking"
    /\ bookings' = Append(bookings, NewBooking(r.venue, r.ev, r.startDateTime,
                                               r.endDateTime))
    /\ procs' = [procs EXCEPT ![p] = [r EXCEPT !.pc = "done", !.code = 201]]
    /\ UNCHANGED <<orgs, events, last>>

NextConc ==
    \/ \E p \in ProcIds, v \in Venues, i \in Intervals : Receive(p, Booker, v, i[1], i[2])
    \/ \E p \in ProcIds : CheckAvailability(p)
    \/ \E p \in ProcIds : SaveEvent(p)
    \/ \E p \in ProcIds : SaveBooking(p)

SpecConc == Init /\ [][NextConc]_vars

(***************************************************************************)
(* Failed persistence writes.  Every await of a Mongoose write may reject  *)
(* (validation, VersionError, lost connection); the handler's catch then   *)
(* answers 500.  Writes that were awaited before the failing one stay in   *)
(* the database: no handler opens a transaction or undoes a write.         *)
(***************************************************************************)
Writes == {"event", "booking"}

(* POST /api/events: event.save() first, venueBooking.save() second. *)
CreateEventFailing(creator, venue, s, e, write) ==
    /\ venue \in Venues
    /\ s < e
    /\ conflictingBookings(bookings, venue, s, e) = {}
    /\ ~WalkThrows(creator)
    /\ events' = IF write = "booking"
                 THEN Append(events, NewEvent(creator, venue, s, e,
                                              buildApprovalChain(creator)))
                 ELSE events
    /\ last' = Response("create", 0, creator, None, 500, <<>>)
    /\ UNCHANGED <<orgs, bookings, procs>>

(* The booking write of a review: rejected cancels, a level-1 approval       *)
(* confirms, every other decision writes no booking.                         *)
ReviewWritesBooking(o, decision) ==
    decision = "rejected" \/ (decision = "approved" /\ IsFinalApprover(o))

ReviewedBookings(ev, o, decision) ==
    IF decision = "rejected" THEN SetBookingStatus(bookings, ev, "cancelled")
    ELSE IF decision = "approved" /\ IsFinalApprover(o)
    THEN SetBookingStatus(bookings, ev, "confirmed")
    ELSE bookings

(* PUT /:eventId/review: VenueBooking.findOneAndUpdate first, event.save()   *)
(* last.                                                                     *)
ReviewEventFailing(ev, o, decision, write) ==
    /\ decision \in Decisions
    /\ ev \in DOMAIN events
    /\ approvalIndex(events[ev].approvalChain, o) # 0 \/ HasAuthority(o)
    /\ write = "booking" => ReviewWritesBooking(o, decision)
    /\ bookings' = IF write = "event" THEN ReviewedBookings(ev, o, decision)
                   ELSE bookings
    /\ last' = Response("review", ev, o, decision, 500, <<>>)
    /\ UNCHANGED <<orgs, events, procs>>

(* PUT /:id/cancel: VenueBooking.findOneAndUpdate first, event.save() last. *)
CancelEventFailing(ev, o, write) ==
    /\ ev \in DOMAIN events
    /\ IsCreator(events[ev], o)
    /\ bookings' = IF write = "event" THEN SetBookingStatus(bookings, ev, "cancelled")
                   ELSE bookings
    /\ last' = Response("cancel", ev, o, None, 500, <<>>)
    /\ UNCHANGED <<orgs, events, procs>>

(* PUT /:id: VenueBooking.findOneAndUpdate (reset only) first, event.save()  *)
(* last.                                                                     *)
UpdateEventFailing(ev, o, venue, s, e, resetStatus, write) ==
    /\ ev \in DOMAIN events
    /\ IsCreator(events[ev], o)
    /\ LET patched == [events[ev] EXCEPT
                          !.venue = Patched(@, venue),
                          !.startDateTime = PatchedTime(@, s),
                          !.endDateTime = PatchedTime(@, e)]
           reset == resetStatus /\ patched.status = "needs_modification"
       IN /\ write = "booking" => reset
          /\ bookings' = IF write = "event" /\ reset
                         THEN RetargetBooking(bookings, ev, patched)
                         ELSE bookings
    /\ last' = Response("update", ev, o, None, 500, <<>>)
    /\ UNCHANGED <<orgs, events, procs>>

(* Requests of one creator on one venue, reviewed by its ancestors. *)
FailCreator == "club"
FailVenue == "v1"
FailReviewers == {"college", "dept"}

NextFail ==
    \/ /\ Len(events) < MaxEvents
       /\ \E s \in Times, e \in Times : CreateEvent(FailCreator, FailVenue, s, e)
    \/ /\ Len(events) < MaxEvents
       /\ \E s \in Times, e \in Times, w \in Writes :
             CreateEventFailing(FailCreator, FailVenue, s, e, w)
    \/ \E ev \in EventIds, o \in FailReviewers, d \in Decisions : ReviewEvent(ev, o, d)
    \/ \E ev \in EventIds, o \in FailReviewers, d \in Decisions, w \in Writes :
          ReviewEventFailing(ev, o, d, w)
    \/ \E ev \in EventIds : CancelEvent(ev, FailCreator)
    \/ \E ev \in EventIds, w \in Writes : CancelEventFailing(ev, FailCreator, w)
    \/ \E ev \in EventIds, s \in StartInputs, r \in BOOLEAN :
          UpdateEvent(ev, FailCreator, None, s, NoTime, r)
    \/ \E ev \in EventIds, s \in StartInputs, r \in BOOLEAN, w \in Writes :
          UpdateEventFailing(ev, FailCreator, None, s, NoTime, r, w)

SpecFail == Init /\ [][NextFail]_vars

(***************************************************************************)
(* GET /api/venue-bookings/check-availability/:venueId with startDateTime  *)
(* and endDateTime (the listing by `date` is not modelled).  exclude = 0   *)
(* stands for a request without excludeEventId.  The response echoes the   *)
(* query; `available` and `conflictingEvents` (booking ids) are meaningful *)
(* when code = 200.                                                        *)
(***************************************************************************)
AvailabilityResponse(venue, s, e, exclude, code, available, conflicts) ==
    [op |-> "availability", ev |-> exclude, org |-> None, decision |-> None,
     code |-> code, approvalChain |-> <<>>, venue |-> venue, startDateTime |-> s,
     endDateTime |-> e, available |-> available, conflictingEvents |-> conflicts]

availabilityConflicts(bks, venue, startDate, endDate, exclude) ==
    {i \in conflictingBookings(bks, venue, startDate, endDate) :
        exclude = 0 \/ bks[i].event # exclude}

CheckVenueAvailability(venue, s, e, exclude) ==
    /\ UNCHANGED <<orgs, events, bookings, procs>>
    /\ IF s = NoTime \/ e = NoTime
       THEN last' = AvailabilityResponse(venue, s, e, exclude, 400, FALSE, {})
       ELSE IF InvalidInterval(s, e)
       THEN last' = AvailabilityResponse(venue, s, e, exclude, 400, FALSE, {})
       ELSE IF venue \notin Venues
       THEN last' = AvailabilityResponse(venue, s, e, exclude, 404, FALSE, {})
       ELSE LET found == availabilityConflicts(bookings, venue, s, e, exclude) IN
            IF found = {}
            THEN last' = AvailabilityResponse(venue, s, e, exclude, 200, TRUE, {})
            ELSE IF \E i \in found : bookings[i].event \notin DOMAIN events
            THEN last' = AvailabilityResponse(venue, s, e, exclude, 500, FALSE, {})
            ELSE last' = AvailabilityResponse(venue, s, e, exclude, 200, FALSE, found)

(***************************************************************************)
(* The conflict query against every booking interval: the database starts  *)
(* with one event of the booker and its temporary booking on any interval  *)
(* of QueryIntervals; availability is then checked and a second event      *)
(* created for every venue and interval, while the level-1 parent approves *)
(* and the creator cancels.  Once MaxBooked events exist only the          *)
(* creations that the validation or the conflict query rejects are sent.   *)
(***************************************************************************)
QueryTimes == 0..MaxQueryTime
QueryIntervals == {<<s, e>> \in QueryTimes \X QueryTimes : s < e}
QueryVenue == "v1"
InvalidIntervals == {<<1, 1>>, <<2, 1>>}
QueryIntervalInputs == QueryIntervals \cup InvalidIntervals \cup {<<NoTime, NoTime>>}
ExcludeInputs == {0, 1}

InitQuery ==
    /\ orgs = SeedOrgs
    /\ \E i \in QueryIntervals :
          /\ events = <<NewEvent(Booker, QueryVenue, i[1], i[2],
                                 [n \in 1..1 |-> ChainEntry(BookerReviewer, "pending")])>>
          /\ bookings = <<NewBooking(QueryVenue, 1, i[1], i[2])>>
    /\ last = NoResponse
    /\ procs = [p \in ProcIds |-> IdleRequest]

NextQuery ==
    \/ \E v \in VenueInputs, i \in QueryIntervalInputs, x \in ExcludeInputs :
          CheckVenueAvailability(v, i[1], i[2], x)
    \/ \E v \in VenueInputs, i \in QueryIntervals \cup InvalidIntervals :
          /\ \/ Len(events) < MaxBooked
             \/ v \notin Venues
             \/ InvalidInterval(i[1], i[2])
             \/ conflictingBookings(bookings, v, i[1], i[2]) # {}
          /\ CreateEvent(Booker, v, i[1], i[2])
    \/ \E ev \in EventIds : ReviewEvent(ev, BookerReviewer, "approved")
    \/ \E ev \in EventIds : CancelEvent(ev, Booker)

SpecQuery == InitQuery /\ [][NextQuery]_vars

(***************************************************************************)
(* Organization routes of the admin: POST /create-child and DELETE /:id.   *)
(* A new organization gets a new _id, one that nothing refers to.  The     *)
(* requester is an existing organization (the auth middleware answers 401  *)
(* otherwise).                                                             *)
(***************************************************************************)
OrgResponse(op, o, id, code) ==
    [op |-> op, ev |-> 0, org |-> o, decision |-> None, code |-> code,
     approvalChain |-> <<>>, target |-> id]

Referenced(id) ==
    \/ \E o \in DOMAIN orgs : orgs[o].parentOrganization = id
    \/ \E ev \in DOMAIN events :
          \/ events[ev].createdBy = id
          \/ \E i \in DOMAIN events[ev].approvalChain :
                events[ev].approvalChain[i].organization = id

WithOrg(id, org) ==
    [o \in DOMAIN orgs \cup {id} |-> IF o = id THEN org ELSE orgs[o]]

WithoutOrg(id) == [o \in DOMAIN orgs \ {id} |-> orgs[o]]

CreateChild(o, id, parentOrganization) ==
    /\ OrgExists(o)
    /\ OrgExists(id) \/ ~Referenced(id)
    /\ UNCHANGED <<events, bookings, procs>>
    /\ IF orgs[o].level # 0
       THEN /\ last' = OrgResponse("create-child", o, id, 403)
            /\ UNCHANGED orgs
       ELSE IF OrgExists(id)
       THEN /\ last' = OrgResponse("create-child", o, id, 400)
            /\ UNCHANGED orgs
       ELSE IF parentOrganization # None /\ ~OrgExists(parentOrganization)
       THEN /\ last' = OrgResponse("create-child", o, id, 400)
            /\ UNCHANGED orgs
       ELSE LET parent == IF parentOrganization = None THEN o
                          ELSE parentOrganization
            IN /\ orgs' = WithOrg(id, Organization(parent, orgs[parent].level + 1))
               /\ last' = OrgResponse("create-child", o, id, 201)

DeleteOrganization(o, id) ==
    /\ OrgExists(o)
    /\ UNCHANGED <<events, bookings, procs>>
    /\ IF orgs[o].level # 0
       THEN /\ last' = OrgResponse("delete", o, id, 403)
            /\ UNCHANGED orgs
       ELSE IF ~OrgExists(id)
       THEN /\ last' = OrgResponse("delete", o, id, 404)
            /\ UNCHANGED orgs
       ELSE /\ orgs' = WithoutOrg(id)
            /\ last' = OrgResponse("delete", o, id, 200)

(***************************************************************************)
(* The hierarchy under administration: the admin and one other             *)
(* organization send the organization requests, every existing             *)
(* organization creates the event.                                         *)
(***************************************************************************)
OrgRequesters == {"root", "club"}
ParentInputs == {None, "college", "club"}

NextOrg ==
    \/ \E o \in OrgRequesters, id \in NewOrgIds, p \in ParentInputs : CreateChild(o, id, p)
    \/ \E o \in OrgRequesters, id \in OrgUniverse : DeleteOrganization(o, id)
    \/ /\ Len(events) < MaxEvents
       /\ \E c \in OrgUniverse : OrgExists(c) /\ CreateEvent(c, QueryVenue, 0, 1)

SpecOrg == Init /\ [][NextOrg]_vars

(***************************************************************************)
(* POST /register (no authentication) and the admin's PUT /:id of the      *)
(* organization router.  register saves a new document, so the pre-save    *)
(* hook computes level and isVenueManager; PUT /:id uses findByIdAndUpdate, *)
(* which runs no save hook.                                                *)
(***************************************************************************)
RegisterOrganization(id, parentOrganization) ==
    /\ OrgExists(id) \/ ~Referenced(id)
    /\ UNCHANGED <<events, bookings, procs>>
    /\ IF OrgExists(id)
       THEN /\ last' = OrgResponse("register", None, id, 400)
            /\ UNCHANGED orgs
       ELSE IF parentOrganization = None
       THEN /\ orgs' = WithOrg(id, Organization(None, 0))
            /\ last' = OrgResponse("register", None, id, 201)
       ELSE IF ~OrgExists(parentOrganization)
       THEN /\ last' = OrgResponse("register", None, id, 500)
            /\ UNCHANGED orgs
       ELSE /\ orgs' = WithOrg(id, Organization(parentOrganization,
                                               orgs[parentOrganization].level + 1))
            /\ last' = OrgResponse("register", None, id, 201)

UpdateOrganization(o, id, parentOrganization) ==
    /\ OrgExists(o)
    /\ UNCHANGED <<events, bookings, procs>>
    /\ IF orgs[o].level # 0
       THEN /\ last' = OrgResponse("update-organization", o, id, 403)
            /\ UNCHANGED orgs
       ELSE IF ~OrgExists(id)
       THEN /\ last' = OrgResponse("update-organization", o, id, 404)
            /\ UNCHANGED orgs
       ELSE /\ orgs' = [orgs EXCEPT ![id].parentOrganization =
                                        Patched(@, parentOrganization)]
            /\ last' = OrgResponse("update-organization", o, id, 200)

(***************************************************************************)
(* The hierarchy under every organization request: register, create-child, *)
(* update with a new parent, delete.                                       *)
(***************************************************************************)
ReparentInputs == {None, "root", "college"}

NextHierarchy ==
    \/ \E id \in NewOrgIds, p \in ParentInputs : RegisterOrganization(id, p)
    \/ \E o \in OrgRequesters, id \in NewOrgIds, p \in ParentInputs : CreateChild(o, id, p)
    \/ \E o \in OrgRequesters, id \in OrgUniverse, p \in ReparentInputs :
          UpdateOrganization(o, id, p)
    \/ \E o \in OrgRequesters, id \in OrgUniverse : DeleteOrganization(o, id)

SpecHierarchy == Init /\ [][NextHierarchy]_vars

(***************************************************************************)
(* Vocabulary of the properties.                                           *)
(***************************************************************************)
Active(b) == b.status \in ActiveStatus

Overlap(a, b) == a.startDateTime < b.endDateTime /\ b.startDateTime < a.endDateTime

BookingStatuses(ev) == {bookings[i].status : i \in BookingsOf(bookings, ev)}

AcceptedReview(r, decision) ==
    r.op = "review" /\ r.code = 200 /\ r.decision = decision

SameRequest(a, b) ==
    a.op = b.op /\ a.ev = b.ev /\ a.org = b.org /\ a.decision = b.decision
        /\ a.code = b.code

(* C1: two concurrent createEvent requests for overlapping intervals on the  *)
(* same venue never both succeed, i.e. never both end with 201 and an active *)
(* booking.                                                                  *)
C1_AtMostOneCreationSucceeds ==
    \A p \in ProcIds, q \in ProcIds :
        (/\ p # q
         /\ procs[p].code = 201
         /\ procs[q].code = 201
         /\ procs[p].venue = procs[q].venue
         /\ Overlap(procs[p], procs[q]))
        => \E ev \in {procs[p].ev, procs[q].ev} :
              \A i \in BookingsOf(bookings, ev) : ~Active(bookings[i])

(* C2: after any sequence of create, review, cancel and update requests      *)
(* handled one at a time, no two active bookings of one venue overlap.       *)
C2_NoDoubleBooking ==
    \A i \in DOMAIN bookings, j \in DOMAIN bookings :
        (i # j /\ Active(bookings[i]) /\ Active(bookings[j])
              /\ bookings[i].venue = bookings[j].venue)
        => ~Overlap(bookings[i], bookings[j])

(* C3: in every reachable state the booking of an event is temporary exactly *)
(* when the event is pending or needs_modification, confirmed exactly when   *)
(* it is approved, cancelled exactly when it is rejected or cancelled.       *)
C3_BookingReflectsEvent ==
    \A ev \in DOMAIN events : \A st \in BookingStatuses(ev) :
        /\ st = "temporary" <=> events[ev].status \in {"pending", "needs_modification"}
        /\ st = "confirmed" <=> events[ev].status = "approved"
        /\ st = "cancelled" <=> events[ev].status \in {"rejected", "cancelled"}

(* C4: once an event is rejected or cancelled, no review and no update       *)
(* changes its status.                                                       *)
C4_RejectedCancelledTerminal ==
    [][\A ev \in DOMAIN events :
          (events[ev].status \in {"rejected", "cancelled"}
              /\ last'.op \in {"review", "update"})
          => events'[ev].status = events[ev].status]_vars

(* C5: once an event is approved, its status changes only by its creator's   *)
(* cancel; no review moves it out of approved.                               *)
C5_ApprovedUntilCancelled ==
    [][\A ev \in DOMAIN events :
          (events[ev].status = "approved" /\ events'[ev].status # "approved")
          => (last'.op = "cancel" /\ last'.ev = ev
                 /\ last'.org = events[ev].createdBy)]_vars

(* C6: whenever a level-1 organization's approved decision is recorded, from *)
(* its slot or through the override, the event is approved and its booking   *)
(* confirmed, whatever the other chain entries are.                          *)
C6_Level1ApprovalIsFinal ==
    (AcceptedReview(last, "approved") /\ orgs[last.org].level = 1)
    => /\ events[last.ev].status = "approved"
       /\ BookingStatuses(last.ev) = {"confirmed"}

(* C6 witness: a level-1 organization without a slot in the chain built at   *)
(* creation has approved while another entry is still not approved.          *)
C6_Witness ==
    /\ AcceptedReview(last, "approved")
    /\ orgs[last.org].level = 1
    /\ approvalIndex(buildApprovalChain(events[last.ev].createdBy), last.org) = 0
    /\ \E i \in DOMAIN events[last.ev].approvalChain :
          events[last.ev].approvalChain[i].status # "approved"
    /\ events[last.ev].status = "approved"

(* C7: an accepted rejection leaves the event rejected and its booking       *)
(* cancelled, and the same rejection repeated right after changes neither    *)
(* the event status, nor the booking status, nor any chain entry.            *)
C7_RejectionIdempotent ==
    [][AcceptedReview(last', "rejected")
       => /\ events'[last'.ev].status = "rejected"
          /\ {bookings'[i].status : i \in BookingsOf(bookings', last'.ev)} = {"cancelled"}
          /\ SameRequest(last, last')
                => /\ events'[last'.ev].approvalChain = events[last.ev].approvalChain
                   /\ events'[last'.ev].status = events[last.ev].status
                   /\ bookings' = bookings]_vars

(* C7 witness: a reviewer seated by the override has rejected; the event is  *)
(* rejected, its booking cancelled, and the rejection can be repeated.       *)
C7_Witness ==
    /\ AcceptedReview(last, "rejected")
    /\ approvalIndex(buildApprovalChain(events[last.ev].createdBy), last.org) = 0
    /\ events[last.ev].status = "rejected"
    /\ BookingStatuses(last.ev) = {"cancelled"}

(* C8: when a level-1 organization holding a slot records                    *)
(* needs_modification, then in the event as saved and as returned every      *)
(* other entry of a level > 1 organization is pending, the reviewer's entry  *)
(* is needs_modification, entries of level <= 1 organizations are untouched  *)
(* and the event is needs_modification.                                      *)
C8_CascadeResetVisible ==
    [][LET r == last'
           idx == approvalIndex(events[r.ev].approvalChain, r.org)
       IN (/\ AcceptedReview(r, "needs_modification")
           /\ orgs[r.org].level = 1
           /\ idx # 0)
          => /\ events'[r.ev].status = "needs_modification"
             /\ Len(r.approvalChain) = Len(events[r.ev].approvalChain)
             /\ Len(events'[r.ev].approvalChain) = Len(events[r.ev].approvalChain)
             /\ \A i \in DOMAIN events[r.ev].approvalChain :
                   LET before == events[r.ev].approvalChain[i]
                       saved == events'[r.ev].approvalChain[i]
                       sent == r.approvalChain[i]
                   IN IF i = idx
                      THEN saved.status = "needs_modification"
                              /\ sent.status = "needs_modification"
                      ELSE IF orgs[before.organization].level > 1
                      THEN saved.status = "pending" /\ sent.status = "pending"
                      ELSE saved = before /\ sent = before]_vars

(* C9: after any accepted needs_modification review the event's booking is   *)
(* temporary, whatever the statuses were before.                             *)
C9_NeedsModificationKeepsTemporary ==
    AcceptedReview(last, "needs_modification")
    => BookingStatuses(last.ev) = {"temporary"}

(* C10: a review by an organization with no slot and level > 1, and a cancel *)
(* or update by anyone but the creator, answer 403 and leave every event and *)
(* every booking unchanged.                                                  *)
C10_UnauthorizedChangesNothing ==
    [][LET r == last' IN
       (/\ r.ev \in DOMAIN events
        /\ \/ /\ r.op = "review"
              /\ r.decision \in Decisions
              /\ approvalIndex(events[r.ev].approvalChain, r.org) = 0
              /\ orgs[r.org].level > 1
           \/ /\ r.op \in {"cancel", "update"}
              /\ r.org # events[r.ev].createdBy)
       => (r.code = 403 /\ events' = events /\ bookings' = bookings)]_vars

(* C10 witness: a 403 on an event that has already been reviewed.            *)
C10_Witness ==
    /\ last.code = 403
    /\ last.op \in {"review", "cancel", "update"}
    /\ events[last.ev].status # "pending"

(* C11: when the creator's update with the reset flag on a                   *)
(* needs_modification event targets a venue and interval that overlap        *)
(* another event's active booking, the request is answered 409 and neither   *)
(* the event nor any booking changes.                                        *)
C11_ConflictingEditRejected ==
    [][\A ev \in DOMAIN events, i \in IntervalInputs :
          (/\ UpdateEvent(ev, Booker, None, i[1], i[2], TRUE)
           /\ events[ev].status = "needs_modification"
           /\ \E j \in DOMAIN bookings :
                 /\ bookings[j].event # ev
                 /\ ConflictQuery(bookings[j], events[ev].venue,
                                  PatchedTime(events[ev].startDateTime, i[1]),
                                  PatchedTime(events[ev].endDateTime, i[2])))
          => (last'.code = 409 /\ events' = events /\ bookings' = bookings)]_vars

(* C12: whenever a create, review, cancel or update request ends in an error *)
(* response (4xx, or 500 after a failed write), the organizations, events    *)
(* and bookings are exactly what they were before the request.               *)
C12_ErrorLeavesStoresUnchanged ==
    [][(last'.op \in {"create", "review", "cancel", "update"} /\ last'.code >= 400)
       => (orgs' = orgs /\ events' = events /\ bookings' = bookings)]_vars

(* C13: in every state another request can observe while creations are in   *)
(* flight, every persisted event has its temporary booking in the bookings   *)
(* collection.                                                               *)
C13_EventNeverWithoutBooking ==
    \A ev \in DOMAIN events :
        \E i \in BookingsOf(bookings, ev) : bookings[i].status = "temporary"

(* C14: for every booking interval [bs,be) and every queried interval [s,e)  *)
(* with bs < be and s < e, createEvent answers 409 and checkAvailability     *)
(* lists the booking exactly when the booking is active on the queried venue *)
(* and bs < e and s < be; intervals that only touch never match.             *)
C14_QueryIsHalfOpenOverlap ==
    [][\A v \in Venues, i \in QueryIntervals :
          LET q == [startDateTime |-> i[1], endDateTime |-> i[2]]
              overlapping == {j \in DOMAIN bookings :
                                 /\ bookings[j].venue = v
                                 /\ Active(bookings[j])
                                 /\ Overlap(bookings[j], q)}
          IN /\ (last'.op = "create" /\ CreateEvent(Booker, v, i[1], i[2]))
                   => (last'.code = 409 <=> overlapping # {})
             /\ (last'.op = "availability" /\ CheckVenueAvailability(v, i[1], i[2], 0))
                   => /\ last'.code = 200
                      /\ last'.conflictingEvents = overlapping
                      /\ last'.available <=> overlapping = {}]_vars

(* C14 witness: availability was checked for an interval that starts exactly *)
(* where an active booking of the venue ends, and the venue is available.    *)
C14_Witness ==
    /\ last.op = "availability"
    /\ last.code = 200
    /\ last.available
    /\ \E j \in DOMAIN bookings :
          /\ bookings[j].venue = last.venue
          /\ Active(bookings[j])
          /\ bookings[j].endDateTime = last.startDateTime
    /\ \E j \in DOMAIN bookings :
          /\ bookings[j].venue = last.venue
          /\ Active(bookings[j])
          /\ bookings[j].startDateTime = last.endDateTime

(* C15: when every booking of the venue that overlaps the requested interval *)
(* is cancelled (an exactly equal interval included), createEvent answers    *)
(* 201 and checkAvailability answers available: true.                        *)
C15_CancelledNeverConflicts ==
    [][\A v \in Venues, i \in QueryIntervals :
          LET q == [startDateTime |-> i[1], endDateTime |-> i[2]]
              overlapping == {j \in DOMAIN bookings :
                                 bookings[j].venue = v /\ Overlap(bookings[j], q)}
              onlyCancelled == /\ overlapping # {}
                               /\ \A j \in overlapping : bookings[j].status = "cancelled"
          IN /\ (last'.op = "create" /\ onlyCancelled
                    /\ CreateEvent(Booker, v, i[1], i[2]))
                   => last'.code = 201
             /\ (last'.op = "availability" /\ onlyCancelled
                    /\ CheckVenueAvailability(v, i[1], i[2], 0))
                   => (last'.code = 200 /\ last'.available)]_vars

(* C15 witness: an event was created on the venue and exactly the interval   *)
(* of a cancelled booking.                                                   *)
C15_Witness ==
    /\ last.op = "create"
    /\ last.code = 201
    /\ \E i \in BookingsOf(bookings, last.ev), j \in DOMAIN bookings :
          /\ j # i
          /\ bookings[j].status = "cancelled"
          /\ bookings[j].venue = bookings[i].venue
          /\ bookings[j].startDateTime = bookings[i].startDateTime
          /\ bookings[j].endDateTime = bookings[i].endDateTime

(* C20: the creator's cancel of an approved event takes its booking from     *)
(* confirmed to cancelled, and an availability check that follows the cancel *)
(* for the event's venue and interval answers available: true when no other  *)
(* active booking of the venue overlaps the interval.                        *)
C20_CancelFreesVenue ==
    [][/\ (/\ last'.op = "cancel"
           /\ last'.code = 200
           /\ events[last'.ev].status = "approved"
           /\ BookingStatuses(last'.ev) = {"confirmed"})
          => /\ events'[last'.ev].status = "cancelled"
             /\ {bookings'[i].status : i \in BookingsOf(bookings', last'.ev)}
                    = {"cancelled"}
       /\ (/\ last.op = "cancel"
           /\ last.code = 200
           /\ last'.op = "availability"
           /\ last'.ev = 0
           /\ last'.venue = events[last.ev].venue
           /\ last'.startDateTime = events[last.ev].startDateTime
           /\ last'.endDateTime = events[last.ev].endDateTime
           /\ \A j \in DOMAIN bookings :
                 (bookings[j].event # last.ev /\ Active(bookings[j])
                     /\ bookings[j].venue = last'.venue)
                 => ~Overlap(bookings[j], last'))
          => (last'.code = 200 /\ last'.available)]_vars

(* C20 witness: availability was checked, and found, for the venue and       *)
(* interval of an event that its level-1 parent had approved and its creator *)
(* then cancelled.                                                           *)
C20_Witness ==
    /\ last.op = "availability"
    /\ last.code = 200
    /\ last.available
    /\ \E ev \in DOMAIN events :
          /\ events[ev].status = "cancelled"
          /\ events[ev].approvalChain[1].status = "approved"
          /\ BookingStatuses(ev) = {"cancelled"}
          /\ last.venue = events[ev].venue
          /\ last.startDateTime = events[ev].startDateTime
          /\ last.endDateTime = events[ev].endDateTime

(* A hierarchy is well formed when every organization without a parent has    *)
(* level 0 and every other one has an existing parent one level above it.    *)
WellFormed ==
    \A o \in DOMAIN orgs :
        IF orgs[o].parentOrganization = None THEN orgs[o].level = 0
        ELSE /\ OrgExists(orgs[o].parentOrganization)
             /\ orgs[o].level = orgs[orgs[o].parentOrganization].level + 1

Created(c) == last'.op = "create" /\ last'.code = 201 /\ last'.org = c

(* C16: in a well-formed hierarchy the chain of an event created by an       *)
(* organization of level n >= 2 has n - 1 entries, all pending: its parent,  *)
(* then the parent of each entry before, the last one of level 1; neither    *)
(* the creator nor a level-0 organization is in it.                          *)
C16_ChainIsAncestorsUpToLevel1 ==
    [][\A c \in DOMAIN orgs :
          (Created(c) /\ WellFormed /\ orgs[c].level >= 2)
          => LET chain == events'[last'.ev].approvalChain IN
             /\ Len(chain) = orgs[c].level - 1
             /\ chain[1].organization = orgs[c].parentOrganization
             /\ \A i \in 2..Len(chain) :
                   chain[i].organization
                      = orgs[chain[i - 1].organization].parentOrganization
             /\ orgs[chain[Len(chain)].organization].level = 1
             /\ \A i \in DOMAIN chain :
                   /\ chain[i].status = "pending"
                   /\ chain[i].organization # c
                   /\ orgs[chain[i].organization].level # 0]_vars

(* C16 witness: a level-3 organization has created an event whose chain is   *)
(* its level-2 parent followed by its level-1 grandparent.                   *)
C16_Witness ==
    /\ last.op = "create"
    /\ last.code = 201
    /\ WellFormed
    /\ orgs[last.org].level = 3
    /\ Len(events[last.ev].approvalChain) = 2
    /\ orgs[events[last.ev].approvalChain[1].organization].level = 2
    /\ orgs[events[last.ev].approvalChain[2].organization].level = 1

(* C17: when an ancestor the walk of createEvent has to load does not exist, *)
(* the request still succeeds: it answers 201 and the event is persisted.    *)
C17_MissingParentTolerated ==
    [][\A c \in DOMAIN orgs :
          (/\ last'.op = "create"
           /\ last'.org = c
           /\ CreateEvent(c, QueryVenue, 0, 1)
           /\ conflictingBookings(bookings, QueryVenue, 0, 1) = {}
           /\ WalkThrows(c))
          => (last'.code = 201 /\ Len(events') = Len(events) + 1)]_vars

(* C18: when the creator has no ancestor to walk to and is not of level 1,   *)
(* the chain of the created event has exactly one entry, pending, for every  *)
(* organization that is at level 1 and no other entry; when it is of level 1 *)
(* the chain is empty.                                                       *)
C18_Level1FanOut ==
    [][\A c \in DOMAIN orgs :
          (Created(c) /\ Walk(c, <<>>) = <<>>)
          => LET chain == events'[last'.ev].approvalChain IN
             IF orgs[c].level = 1 THEN chain = <<>>
             ELSE /\ \A o \in DOMAIN orgs :
                        orgs[o].level = 1
                        => Cardinality({i \in DOMAIN chain :
                                           chain[i].organization = o}) = 1
                  /\ \A i \in DOMAIN chain :
                        /\ chain[i].status = "pending"
                        /\ OrgExists(chain[i].organization)
                        /\ orgs[chain[i].organization].level = 1]_vars

(* C18 witness: the parentless level-0 organization has created an event     *)
(* while two organizations are at level 1, and the chain has both.           *)
C18_Witness ==
    /\ last.op = "create"
    /\ last.code = 201
    /\ orgs[last.org].parentOrganization = None
    /\ orgs[last.org].level = 0
    /\ Cardinality({o \in DOMAIN orgs : orgs[o].level = 1}) = 2
    /\ Len(events[last.ev].approvalChain) = 2

(* C19: an accepted cancel by the creator leaves the event cancelled and its *)
(* booking cancelled whatever the event's status was, and on an event that   *)
(* is already cancelled it changes no event and no booking.                  *)
C19_CancelFromEveryStatus ==
    [][(last'.op = "cancel" /\ last'.code = 200)
       => /\ events'[last'.ev].status = "cancelled"
          /\ {bookings'[i].status : i \in BookingsOf(bookings', last'.ev)}
                = {"cancelled"}
          /\ events[last'.ev].status = "cancelled"
                => (events' = events /\ bookings' = bookings)]_vars

(* C21: a createEvent whose interval overlaps active bookings of the venue   *)
(* answers 409 with, for every such booking and no other, the name of the    *)
(* booking's event and the booking's start and end, and adds or changes no   *)
(* event and no booking.                                                     *)
C21_ConflictListsEveryBooking ==
    [][\A v \in Venues, i \in QueryIntervals :
          LET q == [startDateTime |-> i[1], endDateTime |-> i[2]]
              overlapping == {j \in DOMAIN bookings :
                                 /\ bookings[j].venue = v
                                 /\ Active(bookings[j])
                                 /\ Overlap(bookings[j], q)}
          IN (last'.op = "create" /\ overlapping # {}
                 /\ CreateEvent(Booker, v, i[1], i[2]))
             => /\ last'.code = 409
                /\ last'.conflictingEvents
                      = {[eventName |-> bookings[j].event,
                          startTime |-> bookings[j].startDateTime,
                          endTime |-> bookings[j].endDateTime] : j \in overlapping}
                /\ events' = events
                /\ bookings' = bookings]_vars

(* C21 witness: a creation was rejected with two conflicting events listed.  *)
C21_Witness ==
    /\ last.op = "create"
    /\ last.code = 409
    /\ Cardinality(last.conflictingEvents) = 2
    /\ Len(events) = 2
    /\ Len(bookings) = 2

(* C22: after every request each persisted event (each one saved by an       *)
(* accepted createEvent) is referenced by exactly one booking, and no        *)
(* request removes a booking or moves it to another event.                   *)
C22_ExactlyOneBookingPerEvent ==
    [][/\ \A ev \in DOMAIN events' : Cardinality(BookingsOf(bookings', ev)) = 1
       /\ Len(bookings') >= Len(bookings)
       /\ \A i \in DOMAIN bookings : bookings'[i].event = bookings[i].event]_vars

(* C22 witness: an event sent back for modification and resubmitted by its   *)
(* creator still has exactly one booking.                                    *)
C22_Witness ==
    /\ Len(events) = 1
    /\ events[1].status = "pending"
    /\ Len(events[1].modificationHistory) = 2
    /\ Cardinality(BookingsOf(bookings, 1)) = 1

(* C23: in every state the venue, start and end of a booking are those of    *)
(* the event it belongs to.                                                  *)
C23_BookingCopiesEvent ==
    \A i \in DOMAIN bookings :
        bookings[i].event \in DOMAIN events
        => /\ bookings[i].venue = events[bookings[i].event].venue
           /\ bookings[i].startDateTime = events[bookings[i].event].startDateTime
           /\ bookings[i].endDateTime = events[bookings[i].event].endDateTime

(* C29: every persisted event and every persisted booking has its start      *)
(* before its end.                                                           *)
C29_StartBeforeEnd ==
    /\ \A ev \in DOMAIN events : events[ev].startDateTime < events[ev].endDateTime
    /\ \A i \in DOMAIN bookings : bookings[i].startDateTime < bookings[i].endDateTime

(* C24: an event goes from needs_modification to pending only by an accepted *)
(* update of its creator (the one carrying the reset flag); no review makes  *)
(* that transition.                                                          *)
C24_ResetOnlyByCreatorEdit ==
    [][\A ev \in DOMAIN events :
          (events[ev].status = "needs_modification" /\ events'[ev].status = "pending")
          => (/\ last'.op = "update"
              /\ last'.code = 200
              /\ last'.ev = ev
              /\ last'.org = events[ev].createdBy)]_vars

(* C25: when an organization that holds a slot and is not of level 1         *)
(* approves while an entry before its slot is not approved, the event is     *)
(* pending and its booking temporary after the call.                         *)
C25_OutOfOrderApprovalStaysPending ==
    [][LET r == last'
           idx == approvalIndex(events[r.ev].approvalChain, r.org)
       IN (/\ AcceptedReview(r, "approved")
           /\ idx # 0
           /\ orgs[r.org].level # 1
           /\ \E j \in 1..(idx - 1) :
                 events[r.ev].approvalChain[j].status # "approved")
          => /\ events'[r.ev].status = "pending"
             /\ {bookings'[i].status : i \in BookingsOf(bookings', r.ev)}
                    = {"temporary"}]_vars

(* C27: the status of an event and the status of a booking change only in a  *)
(* createEvent, reviewEvent, cancelEvent or updateEvent request; every other *)
(* request leaves both as they were.                                         *)
C27_StatusWrittenByEventRoutesOnly ==
    [][(\/ \E ev \in DOMAIN events : events'[ev].status # events[ev].status
        \/ \E i \in DOMAIN bookings : bookings'[i].status # bookings[i].status)
       => last'.op \in {"create", "review", "cancel", "update"}]_vars

(* C28: when the creator updates a needs_modification event with the reset   *)
(* flag and the new venue and interval overlap no other event's active       *)
(* booking, then afterwards the event is pending, its modification history   *)
(* is one entry longer, and its booking has the event's new venue, start and *)
(* end and is temporary.                                                     *)
C28_ResetRetargetsBooking ==
    [][\A ev \in DOMAIN events, v \in MoveInputs, i \in IntervalInputs :
          (/\ last'.op = "update"
           /\ events[ev].status = "needs_modification"
           /\ UpdateEvent(ev, Booker, v, i[1], i[2], TRUE)
           /\ \A j \in DOMAIN bookings :
                 bookings[j].event # ev
                 => ~ConflictQuery(bookings[j], Patched(events[ev].venue, v),
                                   PatchedTime(events[ev].startDateTime, i[1]),
                                   PatchedTime(events[ev].endDateTime, i[2])))
          => /\ last'.code = 200
             /\ events'[ev].status = "pending"
             /\ events'[ev].venue = Patched(events[ev].venue, v)
             /\ events'[ev].startDateTime = PatchedTime(events[ev].startDateTime, i[1])
             /\ events'[ev].endDateTime = PatchedTime(events[ev].endDateTime, i[2])
             /\ Len(events'[ev].modificationHistory)
                   = Len(events[ev].modificationHistory) + 1
             /\ \A k \in BookingsOf(bookings', ev) :
                   /\ bookings'[k].venue = events'[ev].venue
                   /\ bookings'[k].startDateTime = events'[ev].startDateTime
                   /\ bookings'[k].endDateTime = events'[ev].endDateTime
                   /\ bookings'[k].status = "temporary"
             /\ BookingsOf(bookings', ev) # {}]_vars

(* C28 witness: an event created on v1 was sent back, moved by its creator   *)
(* to v2 and another interval with the reset flag, and is pending again with *)
(* its booking on the new venue and interval, while another event exists.    *)
C28_Witness ==
    /\ last.op = "update"
    /\ last.code = 200
    /\ Len(events) = 2
    /\ events[last.ev].status = "pending"
    /\ Len(events[last.ev].modificationHistory) = 2
    /\ \E k \in BookingsOf(bookings, last.ev) :
          /\ bookings[k].venue = "v2"
          /\ bookings[k].venue = events[last.ev].venue
          /\ bookings[k].startDateTime = events[last.ev].startDateTime
          /\ bookings[k].status = "temporary"

(* C26: in every state an organization without a parent has level 0, every   *)
(* other one has an existing parent and the parent's level plus 1, and       *)
(* isVenueManager is true exactly for the organizations of level 0.          *)
C26_LevelsFollowParents ==
    \A o \in DOMAIN orgs :
        /\ IF orgs[o].parentOrganization = None THEN orgs[o].level = 0
           ELSE /\ OrgExists(orgs[o].parentOrganization)
                /\ orgs[o].level = orgs[orgs[o].parentOrganization].level + 1
        /\ orgs[o].isVenueManager <=> orgs[o].level = 0

(* C30: a createEvent and an interval-mode checkAvailability whose end is    *)
(* not after its start answer 400, the invalid-interval error when the       *)
(* venue exists, even where the conflict query would match a booking, and    *)
(* change no event and no booking.                                           *)
C30_InvalidIntervalRejected ==
    [][\A v \in VenueInputs, i \in InvalidIntervals :
          /\ (last'.op = "create" /\ CreateEvent(Booker, v, i[1], i[2]))
                => /\ last'.code = 400
                   /\ v \in Venues => last'.message = "invalid-interval"
                   /\ events' = events
                   /\ bookings' = bookings
          /\ (last'.op = "availability" /\ CheckVenueAvailability(v, i[1], i[2], 0))
                => /\ last'.code = 400
                   /\ events' = events
                   /\ bookings' = bookings]_vars

(* C30 witness: an availability check with end <= start was answered 400     *)
(* although the three-case query matches an active booking of the venue.     *)
C30_Witness ==
    /\ last.op = "availability"
    /\ last.code = 400
    /\ last.startDateTime # NoTime
    /\ last.endDateTime <= last.startDateTime
    /\ \E j \in DOMAIN bookings :
          ConflictQuery(bookings[j], last.venue, last.startDateTime, last.endDateTime)

(***************************************************************************)
(* Reviews in a hierarchy that loses organizations: one event of the club, *)
(* reviewed by its ancestors and the admin while the admin deletes         *)
(* organizations of the chain.  The reviewer is an existing organization   *)
(* (the auth middleware answers 401 otherwise).                            *)
(***************************************************************************)
CascadeReviewers == {"root", "college", "dept"}
CascadeDeleted == {"college", "dept"}

NextCascade ==
    \/ /\ Len(events) < MaxEvents
       /\ CreateEvent(FailCreator, FailVenue, 0, 1)
    \/ \E id \in CascadeDeleted : DeleteOrganization("root", id)
    \/ \E ev \in EventIds, o \in CascadeReviewers, d \in BookerDecisions :
          OrgExists(o) /\ ReviewEvent(ev, o, d)

SpecCascade == Init /\ [][NextCascade]_vars

(* The slot review whose chain has an entry of a deleted organization. *)
ReviewWithMissingOrg(ev) ==
    /\ last'.op = "review"
    /\ last'.code = 200
    /\ last'.decision = "needs_modification"
    /\ last'.ev = ev
    /\ ev \in DOMAIN events
    /\ approvalIndex(events[ev].approvalChain, last'.org) # 0
    /\ \E j \in DOMAIN events[ev].approvalChain :
          ~OrgExists(events[ev].approvalChain[j].organization)

(* C31: when a needs_modification review from a slot meets a chain entry     *)
(* whose organization no longer exists, that entry is left as it was, every  *)
(* remaining entry of an organization below the reviewer is pending          *)
(* afterwards (the rest of the chain is still processed), and the review is  *)
(* answered 200 with the reviewer's decision in its slot and the event       *)
(* needs_modification.                                                       *)
C31_MissingOrgSkippedRestProcessed ==
    [][\A ev \in EventIds :
          ReviewWithMissingOrg(ev)
          => LET before == events[ev].approvalChain
                 after == events'[ev].approvalChain
                 idx == approvalIndex(before, last'.org)
             IN /\ Len(after) = Len(before)
                /\ after[idx].status = "needs_modification"
                /\ events'[ev].status = "needs_modification"
                /\ \A i \in DOMAIN before :
                      /\ ~OrgExists(before[i].organization)
                            => (after[i] = before[i] /\ last'.approvalChain[i] = before[i])
                      /\ (i # idx /\ OrgExists(before[i].organization)
                             /\ orgs[before[i].organization].level > orgs[last'.org].level)
                            => (after[i].status = "pending"
                                   /\ last'.approvalChain[i].status = "pending")]_vars

(* The part of C31 that does not depend on the resets being applied in time: *)
(* the entry of the missing organization is untouched and the review is      *)
(* recorded.                                                                 *)
MissingOrgSkipped ==
    [][\A ev \in EventIds :
          ReviewWithMissingOrg(ev)
          => LET before == events[ev].approvalChain
                 after == events'[ev].approvalChain
                 idx == approvalIndex(before, last'.org)
             IN /\ Len(after) = Len(before)
                /\ after[idx].status = "needs_modification"
                /\ events'[ev].status = "needs_modification"
                /\ \A i \in DOMAIN before :
                      ~OrgExists(before[i].organization)
                         => (after[i] = before[i] /\ last'.approvalChain[i] = before[i])]_vars

(* C32: a needs_modification review accepted through the override (reviewer  *)
(* of level <= 1 without a slot) leaves every other chain entry of an        *)
(* organization whose level is greater than the reviewer's pending, as a     *)
(* review from a slot is meant to.                                           *)
C32_OverrideCascadeReset ==
    [][\A ev \in EventIds :
          (/\ last'.op = "review"
           /\ last'.code = 200
           /\ last'.decision = "needs_modification"
           /\ last'.ev = ev
           /\ ev \in DOMAIN events
           /\ approvalIndex(events[ev].approvalChain, last'.org) = 0)
          => \A i \in DOMAIN events[ev].approvalChain :
                (/\ OrgExists(events[ev].approvalChain[i].organization)
                 /\ orgs[events[ev].approvalChain[i].organization].level
                       > orgs[last'.org].level)
                => events'[ev].approvalChain[i].status = "pending"]_vars

(* C33: when an organization of level <= 1 without a slot reviews an event,  *)
(* the chain afterwards is one entry longer, its last entry is the           *)
(* reviewer's with the decision, it is the only entry of the reviewer, and   *)
(* every entry that was there before holds the same organization at the same *)
(* position.                                                                 *)
C33_OverrideAppendsAtEnd ==
    [][\A ev \in EventIds :
          (/\ last'.op = "review"
           /\ last'.code = 200
           /\ last'.ev = ev
           /\ ev \in DOMAIN events
           /\ approvalIndex(events[ev].approvalChain, last'.org) = 0)
          => LET before == events[ev].approvalChain
                 after == events'[ev].approvalChain
             IN /\ Len(after) = Len(before) + 1
                /\ after[Len(after)] = ChainEntry(last'.org, last'.decision)
                /\ Cardinality({i \in DOMAIN after :
                                   after[i].organization = last'.org}) = 1
                /\ \A i \in DOMAIN before :
                      after[i].organization = before[i].organization]_vars

(* C33 witness: the admin, who has no slot in the chain built for the club's *)
(* event, has reviewed it and sits behind the two entries of the walk.       *)
C33_Witness ==
    /\ last.op = "review"
    /\ last.code = 200
    /\ last.ev \in DOMAIN events
    /\ LET chain == events[last.ev].approvalChain
           built == buildApprovalChain(events[last.ev].createdBy)
       IN /\ Len(built) = 2
          /\ approvalIndex(built, last.org) = 0
          /\ Len(chain) = 3
          /\ chain[3] = ChainEntry(last.org, last.decision)
          /\ \A i \in 1..2 : chain[i].organization = built[i].organization

(***************************************************************************)
(* The review of a level-1 approver and the creator's cancel with their    *)
(* awaits as separate steps: Event.findById, VenueBooking.findOneAndUpdate *)
(* and event.save().  Every step is one atomic read or write of one        *)
(* record; requests interleave at the awaits.  event.save() sends the      *)
(* paths the handler has modified since findById: an assignment of the     *)
(* value the document already had is not a modification.  Neither save     *)
(* fails on the version key here: cancel changes no array, so the version  *)
(* the review read is still the stored one.                                *)
(***************************************************************************)
RaceRequest(pc, op, o, ev, doc, code) ==
    [pc |-> pc, creator |-> o, venue |-> None, startDateTime |-> NoTime,
     endDateTime |-> NoTime, ev |-> ev, code |-> code, op |-> op, doc |-> doc]

(* review: const event = await Event.findById(req.params.eventId). *)
ReviewFind(p, ev, o) ==
    /\ procs[p].pc = "idle"
    /\ ev \in DOMAIN events
    /\ IsFinalApprover(o)
    /\ procs' = [procs EXCEPT ![p] =
                    RaceRequest("reviewBooking", "review", o, ev, events[ev], 0)]
    /\ UNCHANGED <<orgs, events, bookings, last>>

(* review, approved by level 1: await VenueBooking.findOneAndUpdate(...). *)
ReviewConfirm(p) ==
    LET r == procs[p] IN
    /\ r.pc = "reviewBooking"
    /\ bookings' = SetBookingStatus(bookings, r.ev, "confirmed")
    /\ procs' = [procs EXCEPT ![p].pc = "reviewSave"]
    /\ UNCHANGED <<orgs, events, last>>

(* The paths of the review's save: the reviewer's entry (its slot, or the    *)
(* entry pushed by the override) and, when it changed, the status.           *)
SavedReview(stored, doc, o) ==
    LET idx == approvalIndex(doc.approvalChain, o)
        chain == IF idx = 0 THEN pushReviewer(stored.approvalChain, o, "approved")
                 ELSE [stored.approvalChain EXCEPT ![idx].status = "approved"]
    IN [stored EXCEPT !.approvalChain = chain,
                      !.status = IF doc.status = "approved" THEN @ ELSE "approved"]

(* review: await event.save(); res.json(event). *)
ReviewSave(p) ==
    LET r == procs[p] IN
    /\ r.pc = "reviewSave"
    /\ events' = [events EXCEPT ![r.ev] = SavedReview(@, r.doc, r.creator)]
    /\ procs' = [procs EXCEPT ![p].pc = "done", ![p].code = 200]
    /\ UNCHANGED <<orgs, bookings, last>>

(* cancel: const event = await Event.findById(req.params.id) and the creator *)
(* check.                                                                    *)
CancelFind(p, ev, o) ==
    /\ procs[p].pc = "idle"
    /\ ev \in DOMAIN events
    /\ procs' = [procs EXCEPT ![p] =
                    IF IsCreator(events[ev], o)
                    THEN RaceRequest("cancelBooking", "cancel", o, ev, events[ev], 0)
                    ELSE RaceRequest("done", "cancel", o, ev, events[ev], 403)]
    /\ UNCHANGED <<orgs, events, bookings, last>>

(* cancel: await VenueBooking.findOneAndUpdate({event}, {status: 'cancelled'}). *)
CancelBooking(p) ==
    LET r == procs[p] IN
    /\ r.pc = "cancelBooking"
    /\ bookings' = SetBookingStatus(bookings, r.ev, "cancelled")
    /\ procs' = [procs EXCEPT ![p].pc = "cancelSave"]
    /\ UNCHANGED <<orgs, events, last>>

(* cancel: await event.save(); res.json(event). *)
CancelSave(p) ==
    LET r == procs[p] IN
    /\ r.pc = "cancelSave"
    /\ events' = [events EXCEPT ![r.ev].status =
                     IF r.doc.status = "cancelled" THEN @ ELSE "cancelled"]
    /\ procs' = [procs EXCEPT ![p].pc = "done", ![p].code = 200]
    /\ UNCHANGED <<orgs, bookings, last>>

RaceRequesters == {Booker, BookerReviewer}

NextRace ==
    \/ /\ Len(events) < MaxEvents
       /\ \E v \in Venues, i \in Intervals : CreateEvent(Booker, v, i[1], i[2])
    \/ \E p \in ProcIds, ev \in EventIds : ReviewFind(p, ev, BookerReviewer)
    \/ \E p \in ProcIds : ReviewConfirm(p)
    \/ \E p \in ProcIds : ReviewSave(p)
    \/ \E p \in ProcIds, ev \in EventIds, o \in RaceRequesters : CancelFind(p, ev, o)
    \/ \E p \in ProcIds : CancelBooking(p)
    \/ \E p \in ProcIds : CancelSave(p)

SpecRace == Init /\ [][NextRace]_vars

(* C34: once the creator's cancel and the level-1 reviewer's approval of the *)
(* same event, run concurrently, have both completed, the event and its      *)
(* booking agree: cancelled with cancelled, or approved with confirmed.      *)
C34_CancelApproveRaceAgrees ==
    \A p \in ProcIds, q \in ProcIds :
        (/\ procs[p].pc = "done" /\ procs[p].code = 200 /\ procs[p].op = "review"
         /\ procs[q].pc = "done" /\ procs[q].code = 200 /\ procs[q].op = "cancel"
         /\ procs[p].ev = procs[q].ev)
        => LET ev == procs[p].ev IN
           \/ events[ev].status = "cancelled" /\ BookingStatuses(ev) = {"cancelled"}
           \/ events[ev].status = "approved" /\ BookingStatuses(ev) = {"confirmed"}

(* C35: whenever a level-1 organization exists, the approval chain of an     *)
(* event just created, whoever created it, has an entry of a level-1         *)
(* organization, the one whose approval makes the event approved.            *)
C35_ChainHasFinalApprover ==
    (last.op = "create" /\ last.code = 201 /\ \E o \in DOMAIN orgs : IsLevel1(o))
    => \E i \in DOMAIN events[last.ev].approvalChain :
          IsLevel1(events[last.ev].approvalChain[i].organization)

(***************************************************************************)
(* The hierarchy walk of POST /api/events one iteration at a time, over    *)
(* the organization stores the organization routes produce.  One request   *)
(* is handled at a time: once a creation has started its walk, the store   *)
(* does not change.  The model keeps the first MaxWalk entries of the      *)
(* chain the loop pushes, more than there are organizations; the loop      *)
(* itself has no bound.                                                    *)
(***************************************************************************)
MaxWalk == 6
Walker == "p1"
WalkAdmin == "root"
WalkTargets == {"college", "dept"}
WalkParents == {"college", "club"}

WalkRequest(pc, creator, currentOrg, chain, code) ==
    [pc |-> pc, creator |-> creator, venue |-> None, startDateTime |-> NoTime,
     endDateTime |-> NoTime, ev |-> 0, code |-> code, currentOrg |-> currentOrg,
     approvalChain |-> chain]

(* let currentOrg = await Organization.findById(req.organization._id). *)
WalkStart(p, creator) ==
    /\ procs[p].pc = "idle"
    /\ OrgExists(creator)
    /\ procs' = [procs EXCEPT ![p] = WalkRequest("walk", creator, creator, <<>>, 0)]
    /\ UNCHANGED <<orgs, events, bookings, last>>

(* One evaluation of the while condition and, when it holds, one iteration. *)
WalkStep(p) ==
    LET r == procs[p]
        parent == orgs[r.currentOrg].parentOrganization
        pushed == IF Len(r.approvalChain) < MaxWalk
                  THEN Append(r.approvalChain, ChainEntry(parent, "pending"))
                  ELSE r.approvalChain
    IN /\ r.pc = "walk"
       /\ procs' = [procs EXCEPT ![p] =
             IF parent = None
             THEN [r EXCEPT !.pc = "done", !.code = 201]
             ELSE IF ~OrgExists(parent)
             THEN [r EXCEPT !.pc = "done", !.code = 500]
             ELSE IF orgs[parent].level = 1
             THEN [r EXCEPT !.pc = "done", !.code = 201, !.currentOrg = parent,
                            !.approvalChain = pushed]
             ELSE [r EXCEPT !.currentOrg = parent, !.approvalChain = pushed]]
       /\ UNCHANGED <<orgs, events, bookings, last>>

Walking == procs[Walker].pc = "walk"

NextWalk ==
    \/ /\ ~Walking
       /\ \E id \in NewOrgIds, p \in ParentInputs : RegisterOrganization(id, p)
    \/ /\ ~Walking
       /\ \E id \in NewOrgIds, p \in ParentInputs : CreateChild(WalkAdmin, id, p)
    \/ /\ ~Walking
       /\ \E id \in WalkTargets, p \in WalkParents : UpdateOrganization(WalkAdmin, id, p)
    \/ /\ ~Walking
       /\ \E id \in WalkTargets : DeleteOrganization(WalkAdmin, id)
    \/ \E c \in OrgUniverse : WalkStart(Walker, c)
    \/ WalkStep(Walker)

SpecWalk == Init /\ [][NextWalk]_vars

(* The handler runs on: a pending await of the walk is resumed. *)
SpecWalkFair == SpecWalk /\ WF_vars(WalkStep(Walker))

(* C36: in every organization store that register, create-child, the         *)
(* organization update and delete produce, the walk of a creation, once      *)
(* started, comes to its end.                                                *)
C36_WalkTerminates == Walking ~> (procs[Walker].pc = "done")

(* C37: in every state no organization has more than one entry in the        *)
(* approval chain of an event: the chain built at creation names each        *)
(* ancestor once, and the override seats a reviewer only when it has no      *)
(* entry.                                                                    *)
C37_OneSlotPerOrganization ==
    \A ev \in DOMAIN events :
        \A i \in DOMAIN events[ev].approvalChain, j \in DOMAIN events[ev].approvalChain :
            events[ev].approvalChain[i].organization
                = events[ev].approvalChain[j].organization => i = j

(* C37 witness: an organization seated by the override has reviewed the      *)
(* event again, from its seat: the chain has the entries of the walk and one *)
(* entry of the reviewer, holding its latest decision.                       *)
C37_Witness ==
    /\ last.op = "review"
    /\ last.code = 200
    /\ last.ev \in DOMAIN events
    /\ LET chain == events[last.ev].approvalChain
           built == buildApprovalChain(events[last.ev].createdBy)
       IN /\ approvalIndex(built, last.org) = 0
          /\ Len(chain) = Len(built) + 1
          /\ chain[Len(chain)] = ChainEntry(last.org, "approved")
          /\ Len(events[last.ev].modificationHistory) = 1
          /\ events[last.ev].modificationHistory[1].requestedBy = last.org

(* C38: in every state the approval chain of an event has no entry of the    *)
(* organization that created the event, so no organization records a         *)
(* decision on its own event.                                                *)
C38_CreatorNotInChain ==
    \A ev \in DOMAIN events :
        \A i \in DOMAIN events[ev].approvalChain :
            events[ev].approvalChain[i].organization # events[ev].createdBy

(***************************************************************************)
(* GET /api/events/pending.  The filter names two paths of the embedded    *)
(* array, 'approvalChain.organization' and 'approvalChain.status', without *)
(* $elemMatch: MongoDB matches each path against the array on its own, so  *)
(* a document matches when some entry is the organization's and some       *)
(* entry, the same or another, is pending.                                 *)
(***************************************************************************)
PendingResponse(o, found) ==
    [op |-> "pending", ev |-> 0, org |-> o, decision |-> None, code |-> 200,
     approvalChain |-> <<>>, found |-> found]

pendingEvents(evs, o) ==
    {ev \in DOMAIN evs :
        /\ \E i \in DOMAIN evs[ev].approvalChain :
              evs[ev].approvalChain[i].organization = o
        /\ \E i \in DOMAIN evs[ev].approvalChain :
              evs[ev].approvalChain[i].status = "pending"
        /\ evs[ev].status \notin {"cancelled", "rejected"}}

GetPending(o) ==
    /\ last' = PendingResponse(o, pendingEvents(events, o))
    /\ UNCHANGED <<orgs, events, bookings, procs>>

(* The listing under reviews: one event of the club, reviewed by its        *)
(* ancestors, cancelled by the club, listed for each of them.               *)
PendingOrgs == {"college", "dept", "club"}

NextPending ==
    \/ /\ Len(events) < MaxEvents
       /\ \E s \in Times, e \in Times : CreateEvent(FailCreator, FailVenue, s, e)
    \/ \E ev \in EventIds, o \in FailReviewers, d \in Decisions : ReviewEvent(ev, o, d)
    \/ \E ev \in EventIds : CancelEvent(ev, FailCreator)
    \/ \E o \in PendingOrgs : GetPending(o)

SpecPending == Init /\ [][NextPending]_vars

(* C39: the pending listing answered to an organization holds exactly the    *)
(* events that are neither cancelled nor rejected and in which the entry of  *)
(* that organization is pending.                                             *)
C39_PendingListsOwnPendingEntries ==
    last.op = "pending"
    => last.found =
          {ev \in DOMAIN events :
              /\ events[ev].status \notin {"cancelled", "rejected"}
              /\ \E i \in DOMAIN events[ev].approvalChain :
                    /\ events[ev].approvalChain[i].organization = last.org
                    /\ events[ev].approvalChain[i].status = "pending"}

====
